---------------------------- MODULE Spec2Model ----------------------------
(***************************************************************************)
(* RecipeBox (src/recipe_box.py): the recipe repository (RecipeRepo over   *)
(* one SQLite table), its CSV import/export, the tolerant row decoder and  *)
(* the ingredient-line scaler (_scale_ingredient_line).                    *)
(*                                                                         *)
(* Text is modelled as a sequence of one-character strings, so that the    *)
(* encodings of the program (JSON, comma and pipe joins, the scaler's      *)
(* regular expression) are computed character by character.                *)
(***************************************************************************)
EXTENDS Integers, Sequences, FiniteSets, TLC

VARIABLES
    store,      \* the recipes table: id -> row (the six data columns)
    seq,        \* the table's AUTOINCREMENT counter: the largest id ever given
    last,       \* the last repository call: [op, arg, raised, ret]
    arg,        \* the input held by a transfer scenario (SpecCodec, SpecCsv)
    line,       \* scaler: the ingredient line handed to _scale_ingredient_line
    ratio,      \* scaler: the ratio, a rational <<numerator, denominator>>
    tieUp,      \* scaler: whether a float that stands for a decimal tie lies above it
    scaled,     \* scaler: the returned text, or NotRun before the call
    pc,         \* the position of the process in main()
    conn        \* the SQLite connection: "none", "open" or "closed"

scaleVars == <<line, ratio, tieUp, scaled>>
repoVars == <<store, seq, last, arg>>
mainVars == <<pc, conn>>
vars == <<store, seq, last, arg, line, ratio, tieUp, scaled, pc, conn>>

\* the handlers run inside root.mainloop(), on the open repository
InMainLoop == pc = "mainloop" /\ conn = "open"

NotRun == "not-run"

NoId == 0            \* Recipe.id is None
None == "None"

NoCall == [op |-> "none", arg |-> None, raised |-> "", ret |-> None]

-----------------------------------------------------------------------------
(* Characters and text helpers (Python str methods used by the program).   *)

Digits == {"0", "1", "2", "3", "4", "5", "6", "7", "8", "9"}

Letters == {"a", "b", "c", "d", "e", "f", "g", "h", "i", "j", "k", "l", "m",
            "n", "o", "p", "q", "r", "s", "t", "u", "v", "w", "x", "y", "z",
            "A", "B", "C", "D", "E", "F", "G", "H", "I", "J", "K", "L", "M",
            "N", "O", "P", "Q", "R", "S", "T", "U", "V", "W", "X", "Y", "Z"}

\* str.isspace / regex \s, on the ASCII whitespace the model's alphabets use
IsSpace(c) == c \in {" ", "\t", "\n", "\r", "\f"}

IsDigit(c) == c \in Digits

\* regex \w (ASCII part): letters, digits and underscore
IsWord(c) == c \in Digits \cup Letters \cup {"_"}

\* str.splitlines line boundaries (the ones the model's alphabets use)
IsLineBreak(c) == c \in {"\n", "\r", "\f"}

DigitVal(c) ==
    CASE c = "0" -> 0 [] c = "1" -> 1 [] c = "2" -> 2 [] c = "3" -> 3
      [] c = "4" -> 4 [] c = "5" -> 5 [] c = "6" -> 6 [] c = "7" -> 7
      [] c = "8" -> 8 [] c = "9" -> 9

DigitChar(d) ==
    CASE d = 0 -> "0" [] d = 1 -> "1" [] d = 2 -> "2" [] d = 3 -> "3"
      [] d = 4 -> "4" [] d = 5 -> "5" [] d = 6 -> "6" [] d = 7 -> "7"
      [] d = 8 -> "8" [] d = 9 -> "9"

\* s[i:j] of Python with 1-based inclusive bounds; empty when j < i
Slice(s, i, j) == IF j < i THEN <<>> ELSE SubSeq(s, i, j)

RECURSIVE LStrip(_)
LStrip(s) ==
    IF s # <<>> /\ IsSpace(Head(s)) THEN LStrip(Tail(s)) ELSE s

RECURSIVE RStrip(_)
RStrip(s) ==
    IF s # <<>> /\ IsSpace(s[Len(s)]) THEN RStrip(Slice(s, 1, Len(s) - 1)) ELSE s

\* str.strip()
Strip(s) == RStrip(LStrip(s))

\* str.rstrip(c) for a single character c
RECURSIVE RStripChar(_, _)
RStripChar(s, c) ==
    IF s # <<>> /\ s[Len(s)] = c THEN RStripChar(Slice(s, 1, Len(s) - 1), c) ELSE s

\* c in s
Contains(s, c) == \E i \in 1..Len(s) : s[i] = c

\* str.split(sep) for a one-character separator: always at least one part
RECURSIVE SplitOn(_, _)
SplitOn(s, sep) ==
    IF \E i \in 1..Len(s) : s[i] = sep
    THEN LET i == CHOOSE k \in 1..Len(s) :
                      s[k] = sep /\ \A m \in 1..(k - 1) : s[m] # sep
         IN  <<Slice(s, 1, i - 1)>> \o SplitOn(Slice(s, i + 1, Len(s)), sep)
    ELSE <<s>>

\* sep.join(parts)
RECURSIVE Join(_, _)
Join(parts, sep) ==
    IF parts = <<>> THEN <<>>
    ELSE IF Len(parts) = 1 THEN parts[1]
    ELSE parts[1] \o <<sep>> \o Join(Tail(parts), sep)

\* [p.strip() for p in parts if p.strip()]
RECURSIVE StripNonEmpty(_)
StripNonEmpty(parts) ==
    IF parts = <<>> THEN <<>>
    ELSE (IF Strip(Head(parts)) # <<>> THEN <<Strip(Head(parts))>> ELSE <<>>)
         \o StripNonEmpty(Tail(parts))

\* str(n) for an integer n
RECURSIVE NatToStr(_)
NatToStr(n) ==
    IF n < 10 THEN <<DigitChar(n)>>
    ELSE NatToStr(n \div 10) \o <<DigitChar(n % 10)>>

IntToStr(n) == IF n < 0 THEN <<"-">> \o NatToStr(0 - n) ELSE NatToStr(n)

\* the value of a non-empty run of decimal digits
RECURSIVE DigitsToNat(_)
DigitsToNat(s) ==
    IF s = <<>> THEN 0
    ELSE 10 * DigitsToNat(Slice(s, 1, Len(s) - 1)) + DigitVal(s[Len(s)])

AllDigits(s) == s # <<>> /\ \A i \in 1..Len(s) : IsDigit(s[i])

RECURSIVE Pow10(_)
Pow10(k) == IF k = 0 THEN 1 ELSE 10 * Pow10(k - 1)

RECURSIVE FlatMap(_, _)
FlatMap(F(_), q) ==
    IF q = <<>> THEN <<>> ELSE F(Head(q)) \o FlatMap(F, Tail(q))


-----------------------------------------------------------------------------
(* The scaler: _scale_ingredient_line (src/recipe_box.py:514-548).         *)
(* Quantities are exact rationals <<numerator, denominator>> standing for  *)
(* the program's floats; the ratio is positive.  A float differs from the  *)
(* rational it stands for by a representation error that shows only when   *)
(* the rational is a decimal tie (x.xx5) of "%.2f": there the float lies   *)
(* just above or just below the tie, and the model takes either (tieUp),   *)
(* unless every operand is a binary fraction and the arithmetic is exact.  *)

MaxLineLen == 5

ScaleChars == {"0", "1", "2", " ", "/", ".", "c"}

Ratios == {<<2, 1>>, <<1, 2>>, <<3, 1>>}

RECURSIVE SeqsUpTo(_, _)
SeqsUpTo(S, n) ==
    IF n = 0 THEN {<<>>}
    ELSE LET shorter == SeqsUpTo(S, n - 1)
         IN  shorter \cup {Append(q, c) : q \in {x \in shorter : Len(x) = n - 1}, c \in S}

ScaleLines == SeqsUpTo(ScaleChars, MaxLineLen)

\* <<hi, hi-1, ..., lo>>: the order in which a greedy quantifier gives back
RECURSIVE DescTo(_, _)
DescTo(hi, lo) == IF hi < lo THEN <<>> ELSE <<hi>> \o DescTo(hi - 1, lo)

\* the last index of the maximal run of characters satisfying P from index i
\* on (i - 1 when s[i] does not satisfy P)
RECURSIVE RunEnd(_, _, _)
RunEnd(P(_), s, i) ==
    IF i <= Len(s) /\ P(s[i]) THEN RunEnd(P, s, i + 1) ELSE i - 1

\* \d+ and \s+ starting at index i: the ends they can take, longest first
DigitRunEnds(s, i) == DescTo(RunEnd(IsDigit, s, i), i)
SpaceRunEnds(s, i) == DescTo(RunEnd(IsSpace, s, i), i)

HasCharAt(s, i, c) == i <= Len(s) /\ s[i] = c

\* \d+\s+\d+/\d+ from the start of s: the ends of its matches, in the
\* order the backtracking matcher tries them
MixedEnds(s) ==
    FlatMap(LAMBDA a :
      FlatMap(LAMBDA b :
        FlatMap(LAMBDA c :
          IF HasCharAt(s, c + 1, "/") THEN DigitRunEnds(s, c + 2) ELSE <<>>,
          DigitRunEnds(s, b + 1)),
        SpaceRunEnds(s, a + 1)),
      DigitRunEnds(s, 1))

\* \d+/\d+
FractionEnds(s) ==
    FlatMap(LAMBDA a :
      IF HasCharAt(s, a + 1, "/") THEN DigitRunEnds(s, a + 2) ELSE <<>>,
      DigitRunEnds(s, 1))

\* \d+(?:\.\d+)? : the optional group is tried before it is skipped
DecimalEnds(s) ==
    FlatMap(LAMBDA a :
      (IF HasCharAt(s, a + 1, ".") THEN DigitRunEnds(s, a + 2) ELSE <<>>)
      \o <<a>>,
      DigitRunEnds(s, 1))

\* a boundary rule that accepts any non-digit continuation
WordBoundaryAnyNonDigit(s, e) == ~(e + 1 <= Len(s) /\ IsDigit(s[e + 1]))

\* \b between s[e] and s[e+1]
WordBoundary(s, e) ==
    (e >= 1 /\ e <= Len(s) /\ IsWord(s[e])) # (e + 1 <= Len(s) /\ IsWord(s[e + 1]))

\* (.*)$ after index e of a stripped line: "." matches no newline
TailMatches(s, e) == ~ \E i \in (e + 1)..Len(s) : s[i] = "\n"

\* a pattern whose alternatives are tried integer first, mixed number last
QuantityMatchEndIntegerFirst(s) ==
    LET ends == DecimalEnds(s) \o FractionEnds(s) \o MixedEnds(s)
        good == {k \in 1..Len(ends) :
                    WordBoundary(s, ends[k]) /\ TailMatches(s, ends[k])}
    IN  IF good = {} THEN 0
        ELSE ends[CHOOSE k \in good : \A m \in good : k <= m]

\* re.match(r"^(\d+\s+\d+/\d+|\d+/\d+|\d+(?:\.\d+)?)\b(.*)$", s): the end of
\* group 1, or 0 when the pattern does not match
QuantityMatchEnd(s) ==
    LET ends == MixedEnds(s) \o FractionEnds(s) \o DecimalEnds(s)
        good == {k \in 1..Len(ends) :
                    WordBoundary(s, ends[k]) /\ TailMatches(s, ends[k])}
    IN  IF good = {} THEN 0
        ELSE ends[CHOOSE k \in good : \A m \in good : k <= m]

\* str.split() with no argument: split on runs of whitespace
RECURSIVE SplitWs(_)
SplitWs(s) ==
    LET t == LStrip(s)
    IN  IF t = <<>> THEN <<>>
        ELSE LET e == RunEnd(LAMBDA c : ~IsSpace(c), t, 1)
             IN  <<Slice(t, 1, e)>> \o SplitWs(Slice(t, e + 1, Len(t)))

Failed == [ok |-> FALSE, n |-> 0, d |-> 1]

\* float(text) on the texts the pattern can produce: digits with an optional
\* fraction part, surrounding whitespace ignored; anything else raises
PyFloat(t) ==
    LET u == Strip(t)
        parts == SplitOn(u, ".")
    IN  IF AllDigits(u) THEN [ok |-> TRUE, n |-> DigitsToNat(u), d |-> 1]
        ELSE IF Len(parts) = 2 /\ AllDigits(parts[1]) /\ AllDigits(parts[2])
        THEN [ok |-> TRUE,
              n |-> DigitsToNat(parts[1]) * Pow10(Len(parts[2])) + DigitsToNat(parts[2]),
              d |-> Pow10(Len(parts[2]))]
        ELSE Failed

\* _frac_str_to_float: num, den = fr.split("/"); float(num) / float(den)
FracStrToFloat(fr) ==
    LET parts == SplitOn(fr, "/")
    IN  IF Len(parts) # 2 THEN Failed
        ELSE LET num == PyFloat(parts[1])
                 den == PyFloat(parts[2])
             IN  IF ~num.ok \/ ~den.ok \/ den.n = 0 THEN Failed
                 ELSE [ok |-> TRUE, n |-> num.n * den.d, d |-> num.d * den.n]

\* frac_to_float
FracToFloat(q) ==
    IF Contains(q, " ")
    THEN LET parts == SplitWs(q)
         IN  IF Len(parts) # 2 THEN Failed
             ELSE LET a == PyFloat(parts[1])
                      b == FracStrToFloat(parts[2])
                  IN  IF ~a.ok \/ ~b.ok THEN Failed
                      ELSE [ok |-> TRUE, n |-> a.n * b.d + b.n * a.d, d |-> a.d * b.d]
    ELSE IF Contains(q, "/") THEN FracStrToFloat(q)
    ELSE PyFloat(q)

\* round(n/d) for n >= 0, d > 0: to nearest, ties to even
RoundHalfEven(n, d) ==
    LET q == n \div d
        r == n % d
    IN  IF 2 * r < d THEN q
        ELSE IF 2 * r > d THEN q + 1
        ELSE IF q % 2 = 0 THEN q ELSE q + 1

Abs(x) == IF x < 0 THEN 0 - x ELSE x

RECURSIVE Gcd(_, _)
Gcd(a, b) == IF b = 0 THEN a ELSE Gcd(b, a % b)

RECURSIVE IsPow2(_)
IsPow2(k) == k = 1 \/ (k > 1 /\ k % 2 = 0 /\ IsPow2(k \div 2))

\* n/d (d > 0) is a binary fraction, which a float holds exactly
Dyadic(n, d) == IsPow2(d \div Gcd(n, d))

\* f"{x:.2f}" for x = n/d >= 0; exact: the float is the rational itself
TwoDecimals(n, d, exact, up) ==
    LET tie == 2 * ((100 * n) % d) = d
        h == IF tie /\ ~exact
             THEN ((100 * n) \div d) + (IF up THEN 1 ELSE 0)
             ELSE RoundHalfEven(100 * n, d)
    IN  NatToStr(h \div 100) \o <<".", DigitChar((h % 100) \div 10), DigitChar(h % 10)>>

\* lines 542-545: the rendering of the new quantity n/d; the distance to the
\* nearest integer is below 1e-6 when |n - r*d| * 10^6 < d
FormatQty(n, d, exact, up) ==
    LET r == RoundHalfEven(n, d)
    IN  IF Abs(n - r * d) <= (d - 1) \div 1000000 THEN IntToStr(r)
        ELSE RStripChar(RStripChar(TwoDecimals(n, d, exact, up), "0"), ".")

\* lines 526 and 546: the returned text, given the quantity and the remainder
RenderScaled(qty_fmt, rest) == qty_fmt \o <<" ">> \o rest

ScaleIngredientLine(ln, rt, up) ==
    LET s == Strip(ln)
        e == QuantityMatchEnd(s)
    IN  IF e = 0 THEN s
        ELSE LET qty_str == Strip(Slice(s, 1, e))
                 rest == Strip(Slice(s, e + 1, Len(s)))
                 qty == FracToFloat(qty_str)
             IN  IF ~qty.ok THEN s
                 ELSE RenderScaled(
                          FormatQty(qty.n * rt[1], qty.d * rt[2],
                                    Dyadic(qty.n, qty.d) /\ Dyadic(rt[1], rt[2]), up),
                          rest)

ScaleInit ==
    /\ line \in ScaleLines
    /\ ratio \in Ratios
    /\ tieUp \in BOOLEAN
    /\ scaled = NotRun
    /\ store = <<>> /\ seq = 0 /\ last = NoCall /\ arg = <<>>
    /\ InMainLoop

\* ScaleDialog._on_scale applies the scaler to one line
ScaleLine ==
    /\ scaled = NotRun
    /\ scaled' = ScaleIngredientLine(line, ratio, tieUp)
    /\ UNCHANGED <<line, ratio, tieUp>>
    /\ UNCHANGED <<repoVars, mainVars>>

ScaleNext == ScaleLine

SpecScale == ScaleInit /\ [][ScaleNext]_vars

\* Longer lines for the mixed-number alternative: a head that starts with a
\* digit, over digits, space and slash, followed by a tail of unit text,
\* spaces and line breaks.
MaxTailLen == 2

MixedDigits == {"1", "2", "3"}
MixedChars == MixedDigits \cup {" ", "/"}
TailChars == {" ", "c", "\n"}

MixedLines ==
    {<<d>> \o h \o t : d \in MixedDigits,
                        h \in SeqsUpTo(MixedChars, MaxLineLen - 1),
                        t \in SeqsUpTo(TailChars, MaxTailLen)}

MixedInit ==
    /\ line \in MixedLines
    /\ ratio \in Ratios
    /\ tieUp \in BOOLEAN
    /\ scaled = NotRun
    /\ store = <<>> /\ seq = 0 /\ last = NoCall /\ arg = <<>>
    /\ InMainLoop

SpecMixed == MixedInit /\ [][ScaleNext]_vars


-----------------------------------------------------------------------------
(* JSON, as json.dumps(list, ensure_ascii=False) writes it and json.loads  *)
(* reads it (src/recipe_box.py:60, 108, 176).  A decoded value is a record *)
(* [t, s, a]: t the kind ("str", "num", "lit", "arr", "obj"), s the text   *)
(* of a string, number or literal, a the items of an array (the keys and   *)
(* values, alternating, of an object).  \uXXXX escapes and control         *)
(* characters other than \n \r \t \f are outside the model's alphabets.    *)

Backspace == "BS"    \* the one-character string "\x08"

JStr(s) == [t |-> "str", s |-> s, a |-> <<>>]
JNum(s) == [t |-> "num", s |-> s, a |-> <<>>]
JLit(s) == [t |-> "lit", s |-> s, a |-> <<>>]
JArr(a) == [t |-> "arr", s |-> <<>>, a |-> a]
JObj(a) == [t |-> "obj", s |-> <<>>, a |-> a]

\* the Python list of the strings of L
JList(L) == JArr([i \in 1..Len(L) |-> JStr(L[i])])

\* json.encoder.ESCAPE_DCT with ensure_ascii=False
EscapeChar(c) ==
    CASE c = "\"" -> <<"\\", "\"">>
      [] c = "\\" -> <<"\\", "\\">>
      [] c = "\n" -> <<"\\", "n">>
      [] c = "\r" -> <<"\\", "r">>
      [] c = "\t" -> <<"\\", "t">>
      [] c = "\f" -> <<"\\", "f">>
      [] c = Backspace -> <<"\\", "b">>
      [] OTHER -> <<c>>

RECURSIVE EscapeText(_)
EscapeText(s) ==
    IF s = <<>> THEN <<>> ELSE EscapeChar(Head(s)) \o EscapeText(Tail(s))

JsonQuote(s) == <<"\"">> \o EscapeText(s) \o <<"\"">>

RECURSIVE JsonItems(_)
JsonItems(L) ==
    IF L = <<>> THEN <<>>
    ELSE IF Len(L) = 1 THEN JsonQuote(L[1])
    ELSE JsonQuote(L[1]) \o <<",", " ">> \o JsonItems(Tail(L))

\* json.dumps(L, ensure_ascii=False) for a list L of strings
JsonDumps(L) == <<"[">> \o JsonItems(L) \o <<"]">>

IsJsonWs(c) == c \in {" ", "\t", "\n", "\r"}

\* the first index from i on that holds no JSON whitespace
SkipWs(text, i) == RunEnd(IsJsonWs, text, i) + 1

NoParse == [ok |-> FALSE, v |-> JLit(<<>>), next |-> 0]
Parsed(v, next) == [ok |-> TRUE, v |-> v, next |-> next]

\* the character an escape \c stands for; <<>> when \c is no escape
Unescape(c) ==
    CASE c = "\"" -> <<"\"">>
      [] c = "\\" -> <<"\\">>
      [] c = "/" -> <<"/">>
      [] c = "b" -> <<Backspace>>
      [] c = "f" -> <<"\f">>
      [] c = "n" -> <<"\n">>
      [] c = "r" -> <<"\r">>
      [] c = "t" -> <<"\t">>
      [] OTHER -> <<>>

IsControl(c) == c \in {"\n", "\r", "\t", "\f", Backspace}

\* json.decoder.scanstring (strict): text[i - 1] is the opening quote
RECURSIVE ScanString(_, _, _)
ScanString(text, i, acc) ==
    IF i > Len(text) THEN NoParse
    ELSE IF text[i] = "\"" THEN Parsed(JStr(acc), i + 1)
    ELSE IF IsControl(text[i]) THEN NoParse
    ELSE IF text[i] = "\\"
    THEN IF i + 1 > Len(text) \/ Unescape(text[i + 1]) = <<>> THEN NoParse
         ELSE ScanString(text, i + 2, acc \o Unescape(text[i + 1]))
    ELSE ScanString(text, i + 1, Append(acc, text[i]))

\* json.scanner.NUMBER_RE, (-?(?:0|[1-9]\d*))(\.\d+)?([eE][-+]?\d+)? at index
\* i: the index after the match, or i when there is none.  Each step takes
\* the end of the part before it.
ExpEnd(text, fracEnd, e0) ==
    IF (HasCharAt(text, fracEnd + 1, "e") \/ HasCharAt(text, fracEnd + 1, "E"))
       /\ RunEnd(IsDigit, text, e0) >= e0
    THEN RunEnd(IsDigit, text, e0) ELSE fracEnd

NumberAfterFrac(text, fracEnd) ==
    ExpEnd(text, fracEnd,
           IF HasCharAt(text, fracEnd + 2, "-") \/ HasCharAt(text, fracEnd + 2, "+")
           THEN fracEnd + 3 ELSE fracEnd + 2) + 1

NumberAfterInt(text, i, s0, intEnd) ==
    IF intEnd < s0 THEN i
    ELSE NumberAfterFrac(text,
             IF HasCharAt(text, intEnd + 1, ".")
                /\ RunEnd(IsDigit, text, intEnd + 2) >= intEnd + 2
             THEN RunEnd(IsDigit, text, intEnd + 2) ELSE intEnd)

NumberAfterSign(text, i, s0) ==
    NumberAfterInt(text, i, s0,
                   IF HasCharAt(text, s0, "0") THEN s0 ELSE RunEnd(IsDigit, text, s0))

NumberEnd(text, i) ==
    NumberAfterSign(text, i, IF HasCharAt(text, i, "-") THEN i + 1 ELSE i)

HasPrefixAt(text, i, w) ==
    i + Len(w) - 1 <= Len(text) /\ Slice(text, i, i + Len(w) - 1) = w

JsonLiterals ==
    << <<"n", "u", "l", "l">>, <<"t", "r", "u", "e">>, <<"f", "a", "l", "s", "e">>,
       <<"N", "a", "N">>, <<"I", "n", "f", "i", "n", "i", "t", "y">>,
       <<"-", "I", "n", "f", "i", "n", "i", "t", "y">> >>

\* the literal among JsonLiterals[lo..hi] that text holds at index i
LiteralAt(text, i, lo, hi) ==
    LET k == CHOOSE k \in lo..hi : HasPrefixAt(text, i, JsonLiterals[k])
    IN  Parsed(JLit(JsonLiterals[k]), i + Len(JsonLiterals[k]))

\* a number whose match ends before index e (none when e = i)
NumberAt(text, i, e) ==
    IF e > i THEN Parsed(JNum(Slice(text, i, e - 1)), e)
    ELSE IF \E k \in 4..6 : HasPrefixAt(text, i, JsonLiterals[k])
    THEN LiteralAt(text, i, 4, 6)
    ELSE NoParse

\* _scan_once on a character that opens no string, object or array
ScanAtom(text, i) ==
    IF \E k \in 1..3 : HasPrefixAt(text, i, JsonLiterals[k])
    THEN LiteralAt(text, i, 1, 3)
    ELSE NumberAt(text, i, NumberEnd(text, i))

\* json.scanner.py_make_scanner._scan_once, JSONArray and JSONObject.  The
\* array and object loops are cut into steps, each taking the result of the
\* step before it; acc holds the items (keys and values) read so far.
RECURSIVE ScanOnce(_, _)
RECURSIVE ScanArray(_, _, _)
RECURSIVE ArrayAfterItem(_, _, _)
RECURSIVE ArrayAfterWs(_, _, _)
RECURSIVE ScanObject(_, _, _)
RECURSIVE ObjectAfterKey(_, _, _)
RECURSIVE ObjectAfterColon(_, _, _, _)
RECURSIVE ObjectAfterValue(_, _, _)
RECURSIVE ObjectAfterWs(_, _, _)

ScanOnce(text, i) ==
    IF i > Len(text) THEN NoParse
    ELSE CASE text[i] = "\"" -> ScanString(text, i + 1, <<>>)
           [] text[i] = "{" -> ScanObject(text, SkipWs(text, i + 1), <<>>)
           [] text[i] = "[" -> ScanArray(text, SkipWs(text, i + 1), <<>>)
           [] OTHER -> ScanAtom(text, i)

\* i is past the whitespace after "[" (acc empty) or after a comma
ScanArray(text, i, acc) ==
    IF acc = <<>> /\ HasCharAt(text, i, "]") THEN Parsed(JArr(<<>>), i + 1)
    ELSE ArrayAfterItem(text, acc, ScanOnce(text, i))

ArrayAfterItem(text, acc, item) ==
    IF ~item.ok THEN NoParse
    ELSE ArrayAfterWs(text, Append(acc, item.v), SkipWs(text, item.next))

ArrayAfterWs(text, acc, j) ==
    IF HasCharAt(text, j, "]") THEN Parsed(JArr(acc), j + 1)
    ELSE IF ~HasCharAt(text, j, ",") THEN NoParse
    ELSE ScanArray(text, SkipWs(text, j + 1), acc)

\* i is past the whitespace after "{" (acc empty) or after a comma
ScanObject(text, i, acc) ==
    IF acc = <<>> /\ HasCharAt(text, i, "}") THEN Parsed(JObj(<<>>), i + 1)
    ELSE IF ~HasCharAt(text, i, "\"") THEN NoParse
    ELSE ObjectAfterKey(text, acc, ScanString(text, i + 1, <<>>))

ObjectAfterKey(text, acc, key) ==
    IF ~key.ok THEN NoParse
    ELSE ObjectAfterColon(text, acc, key.v, SkipWs(text, key.next))

ObjectAfterColon(text, acc, k, c) ==
    IF ~HasCharAt(text, c, ":") THEN NoParse
    ELSE ObjectAfterValue(text, Append(acc, k), ScanOnce(text, SkipWs(text, c + 1)))

ObjectAfterValue(text, acc, val) ==
    IF ~val.ok THEN NoParse
    ELSE ObjectAfterWs(text, Append(acc, val.v), SkipWs(text, val.next))

ObjectAfterWs(text, acc, j) ==
    IF HasCharAt(text, j, "}") THEN Parsed(JObj(acc), j + 1)
    ELSE IF ~HasCharAt(text, j, ",") THEN NoParse
    ELSE ScanObject(text, SkipWs(text, j + 1), acc)

\* the value read and nothing but whitespace after it
WholeText(text, r) ==
    IF r.ok /\ SkipWs(text, r.next) > Len(text) THEN r ELSE NoParse

\* json.loads(text): [ok, v]; ~ok stands for the JSONDecodeError raised
JsonLoads(text) == WholeText(text, ScanOnce(text, SkipWs(text, 1)))

-----------------------------------------------------------------------------
(* The repository: RecipeRepo (src/recipe_box.py:69-193).  A timestamp     *)
(* (created_at, an ISO-8601 text compared as text) is modelled by a        *)
(* number with the same order; 0 stands for the empty text.                *)

Call(op, a, raised, ret) == [op |-> op, arg |-> a, raised |-> raised, ret |-> ret]

\* a to_db_tuple that writes the ingredients newline-separated
ToDbTupleLegacy(r) ==
    [title |-> r.title,
     ingredients |-> Join(r.ingredients, "\n"),
     instructions |-> r.instructions,
     tags |-> Join(r.tags, ","),
     servings |-> r.servings,
     created_at |-> r.created_at]

\* Recipe.to_db_tuple; update() builds the same first five columns (line 108)
ToDbTuple(r) ==
    [title |-> r.title,
     ingredients |-> JsonDumps(r.ingredients),
     instructions |-> r.instructions,
     tags |-> Join(r.tags, ","),
     servings |-> r.servings,
     created_at |-> r.created_at]

\* str.splitlines, then the strip-and-drop-blank of line 179
RECURSIVE SplitLines(_)
SplitLines(s) ==
    IF \E i \in 1..Len(s) : IsLineBreak(s[i])
    THEN LET i == CHOOSE k \in 1..Len(s) :
                      IsLineBreak(s[k]) /\ \A m \in 1..(k - 1) : ~IsLineBreak(s[m])
         IN  <<Slice(s, 1, i - 1)>> \o SplitLines(Slice(s, i + 1, Len(s)))
    ELSE IF s = <<>> THEN <<>> ELSE <<s>>

\* lines 174-179: the ingredients of a stored column, a decoded JSON value
\* or, when json.loads raises, the list of the non-blank trimmed lines
DecodeIngredients(col) ==
    LET ing_json == IF col = <<>> THEN <<"[", "]">> ELSE col
        loaded == JsonLoads(ing_json)
    IN  IF loaded.ok THEN loaded.v
        ELSE JList(StripNonEmpty(SplitLines(ing_json)))

\* line 180
DecodeTags(col) == StripNonEmpty(SplitOn(col, ","))

\* RecipeRepo._row_to_recipe; now is what utcnow() returns during the call
RowToRecipe(id, row, now) ==
    [id |-> id,
     title |-> row.title,
     ingredients |-> DecodeIngredients(row.ingredients),
     instructions |-> row.instructions,
     tags |-> DecodeTags(row.tags),
     servings |-> IF row.servings = 0 THEN 1 ELSE row.servings,
     created_at |-> IF row.created_at = 0 THEN now ELSE row.created_at]

\* RecipeRepo.add: [rows, seq, ret]
RepoAdd(rows, sq, r) ==
    [rows |-> rows @@ ((sq + 1) :> ToDbTuple(r)), seq |-> sq + 1, ret |-> sq + 1]

\* an UPDATE that also writes the caller's created_at
UpdatedRowWithCreatedAt(old, r) == ToDbTuple(r)

\* the UPDATE statement of lines 106-109 on one row
UpdatedRow(old, r) ==
    [old EXCEPT !.title = r.title,
                !.ingredients = JsonDumps(r.ingredients),
                !.instructions = r.instructions,
                !.tags = Join(r.tags, ","),
                !.servings = r.servings]

\* RecipeRepo.update: [rows, raised, ret]
RepoUpdate(rows, r) ==
    IF r.id = NoId THEN [rows |-> rows, raised |-> "ValueError", ret |-> None]
    ELSE [rows |-> [i \in DOMAIN rows |->
                       IF i = r.id THEN UpdatedRow(rows[i], r) ELSE rows[i]],
          raised |-> "", ret |-> None]

\* a DELETE without its WHERE clause
RepoDeleteAll(rows, id) == <<>>

\* RecipeRepo.delete: the rows left
RepoDelete(rows, id) == [i \in DOMAIN rows \ {id} |-> rows[i]]

\* ORDER BY created_at DESC; rows with equal created_at in rowid order
RECURSIVE OrderByCreatedDesc(_, _)
OrderByCreatedDesc(rows, ids) ==
    IF ids = {} THEN <<>>
    ELSE LET first == CHOOSE i \in ids : \A j \in ids :
                          \/ rows[i].created_at > rows[j].created_at
                          \/ rows[i].created_at = rows[j].created_at /\ i <= j
         IN  <<first>> \o OrderByCreatedDesc(rows, ids \ {first})

\* [self._row_to_recipe(r) for r in cur.fetchall()]
FetchAll(rows, ids, now) ==
    LET order == OrderByCreatedDesc(rows, ids)
    IN  [k \in 1..Len(order) |-> RowToRecipe(order[k], rows[order[k]], now)]

\* RecipeRepo.list_all
RepoListAll(rows, now) == FetchAll(rows, DOMAIN rows, now)

\* RecipeRepo.get
RepoGet(rows, id, now) ==
    IF id \in DOMAIN rows THEN RowToRecipe(id, rows[id], now) ELSE None

LowerCase == <<"a", "b", "c", "d", "e", "f", "g", "h", "i", "j", "k", "l", "m",
               "n", "o", "p", "q", "r", "s", "t", "u", "v", "w", "x", "y", "z">>
UpperCase == <<"A", "B", "C", "D", "E", "F", "G", "H", "I", "J", "K", "L", "M",
               "N", "O", "P", "Q", "R", "S", "T", "U", "V", "W", "X", "Y", "Z">>

\* SQLite's LIKE folds the case of ASCII letters
Fold(c) ==
    IF \E k \in 1..26 : UpperCase[k] = c
    THEN LowerCase[CHOOSE k \in 1..26 : UpperCase[k] = c]
    ELSE c

\* text LIKE pat: % matches any run of characters, _ any one character
RECURSIVE Like(_, _)
Like(text, pat) ==
    IF pat = <<>> THEN text = <<>>
    ELSE IF Head(pat) = "%"
    THEN Like(text, Tail(pat)) \/ (text # <<>> /\ Like(Tail(text), pat))
    ELSE /\ text # <<>>
         /\ (Head(pat) = "_" \/ Fold(Head(pat)) = Fold(Head(text)))
         /\ Like(Tail(text), Tail(pat))

\* a search that treats the empty query as matching nothing
SearchMatchesNonEmpty(row, q) ==
    LET q_like == <<"%">> \o q \o <<"%">>
    IN  q # <<>> /\ (\/ Like(row.title, q_like)
                     \/ Like(row.tags, q_like)
                     \/ Like(row.ingredients, q_like))

\* the WHERE clause of RecipeRepo.search (line 130) with q_like = f"%{q}%"
SearchMatches(row, q) ==
    LET q_like == <<"%">> \o q \o <<"%">>
    IN  \/ Like(row.title, q_like)
        \/ Like(row.tags, q_like)
        \/ Like(row.ingredients, q_like)

\* RecipeRepo.search
RepoSearch(rows, q, now) ==
    FetchAll(rows, {i \in DOMAIN rows : SearchMatches(rows[i], q)}, now)

-----------------------------------------------------------------------------
(* CSV transfer: RecipeRepo.import_csv and export_csv (lines 135-168).  A  *)
(* CSV row is the dict csv.DictReader yields / csv.DictWriter is given: a  *)
(* record of cell texts; a column the header lacks is a field the record   *)
(* lacks.                                                                  *)

\* row.get(key, default)
Cell(row, key, default) == IF key \in DOMAIN row THEN row[key] ELSE default

\* digits with single underscores between them (int() accepts "1_0")
RECURSIVE DigitGroups(_)
DigitGroups(s) ==
    /\ s # <<>>
    /\ IsDigit(Head(s))
    /\ \/ Len(s) = 1
       \/ IsDigit(s[2]) /\ DigitGroups(Tail(s))
       \/ s[2] = "_" /\ DigitGroups(Tail(Tail(s)))

RECURSIVE DropChar(_, _)
DropChar(s, c) ==
    IF s = <<>> THEN <<>>
    ELSE (IF Head(s) = c THEN <<>> ELSE <<Head(s)>>) \o DropChar(Tail(s), c)

\* int(text): [ok, n]; ~ok stands for the ValueError raised
PyInt(text) ==
    LET u == Strip(text)
        signed == u # <<>> /\ Head(u) \in {"+", "-"}
        body == IF signed THEN Tail(u) ELSE u
    IN  IF DigitGroups(body)
        THEN [ok |-> TRUE,
              n |-> IF signed /\ Head(u) = "-"
                    THEN 0 - DigitsToNat(DropChar(body, "_"))
                    ELSE DigitsToNat(DropChar(body, "_"))]
        ELSE [ok |-> FALSE, n |-> 0]

\* line 146: int(row.get("servings", "1") or 1)
ServingsOfCell(row) ==
    LET cell == Cell(row, "servings", <<"1">>)
    IN  IF cell = <<>> THEN [ok |-> TRUE, n |-> 1] ELSE PyInt(cell)

\* lines 140-147: the Recipe built from an accepted row
RecipeOfCsvRow(row, servings, now) ==
    [id |-> NoId,
     title |-> Strip(Cell(row, "title", <<>>)),
     ingredients |-> StripNonEmpty(SplitOn(Cell(row, "ingredients", <<>>), "|")),
     instructions |-> Strip(Cell(row, "instructions", <<>>)),
     tags |-> StripNonEmpty(SplitOn(Cell(row, "tags", <<>>), ",")),
     servings |-> servings,
     created_at |-> now]

\* the loop of import_csv over the rows left, nows[k] being what utcnow()
\* returns for the k-th of them: [rows, seq, raised, ret]
RECURSIVE ImportRows(_, _, _, _, _)
ImportRows(rows, sq, batch, nows, added) ==
    IF batch = <<>> THEN [rows |-> rows, seq |-> sq, raised |-> "", ret |-> added]
    ELSE IF Strip(Cell(Head(batch), "title", <<>>)) = <<>>
    THEN ImportRows(rows, sq, Tail(batch), Tail(nows), added)
    ELSE LET servings == ServingsOfCell(Head(batch))
         IN  IF ~servings.ok
             THEN [rows |-> rows, seq |-> sq, raised |-> "ValueError", ret |-> added]
             ELSE LET done == RepoAdd(rows, sq,
                                      RecipeOfCsvRow(Head(batch), servings.n, Head(nows)))
                  IN  ImportRows(done.rows, done.seq, Tail(batch), Tail(nows), added + 1)

\* RecipeRepo.import_csv; when it raises, ret is the number of rows added
\* (and committed) before the exception, which the caller does not receive
ImportCsv(rows, sq, batch, nows) == ImportRows(rows, sq, batch, nows, 0)

\* "|".join(r.ingredients) on a decoded value: [ok, text]; ~ok stands for
\* the TypeError raised on a value that is no iterable of strings
JoinIngredients(v) ==
    IF v.t = "arr" /\ \A k \in 1..Len(v.a) : v.a[k].t = "str"
    THEN [ok |-> TRUE, text |-> Join([k \in 1..Len(v.a) |-> v.a[k].s], "|")]
    ELSE IF v.t = "str"
    THEN [ok |-> TRUE, text |-> Join([k \in 1..Len(v.s) |-> <<v.s[k]>>], "|")]
    ELSE [ok |-> FALSE, text |-> <<>>]

\* lines 158-167: the dict written for one recipe
CsvRowOfRecipe(r) ==
    [id |-> IntToStr(r.id),
     title |-> r.title,
     ingredients |-> JoinIngredients(r.ingredients).text,
     instructions |-> r.instructions,
     tags |-> Join(r.tags, ","),
     servings |-> IntToStr(r.servings),
     created_at |-> r.created_at]

\* RecipeRepo.export_csv: [raised, ret], ret the rows written
ExportCsv(recipes) ==
    IF \E k \in 1..Len(recipes) : ~JoinIngredients(recipes[k].ingredients).ok
    THEN [raised |-> "TypeError", ret |-> <<>>]
    ELSE [raised |-> "", ret |-> [k \in 1..Len(recipes) |-> CsvRowOfRecipe(recipes[k])]]

-----------------------------------------------------------------------------
(* The repository as a state machine: any sequence of calls on a database  *)
(* that starts empty.                                                      *)

MaxId == 2       \* no row is added once the AUTOINCREMENT counter is MaxId
MaxStamp == 2    \* utcnow() returns one of MaxStamp timestamps
MaxServings == 1
MaxBatch == 2    \* rows of a CSV file

Stamps == 1..MaxStamp
Ids == 1..(MaxId + 1)

\* the texts of the records the calls are made with
SmallContents ==
    {[title |-> <<"a">>, ingredients |-> <<>>, instructions |-> <<>>, tags |-> <<>>],
     [title |-> <<"B">>, ingredients |-> << <<"2", " ", "c">> >>,
      instructions |-> <<"d">>, tags |-> << <<"b">> >>]}

SmallQueries == {<<>>, <<"a">>, <<"b">>, <<"_">>}

SmallRecipes(ids) ==
    {[id |-> i, title |-> c.title, ingredients |-> c.ingredients,
      instructions |-> c.instructions, tags |-> c.tags, servings |-> s,
      created_at |-> at] :
        i \in ids, c \in SmallContents, s \in 0..MaxServings, at \in Stamps}

SmallCsvRows ==
    {[title |-> <<"a">>, ingredients |-> <<"2", " ", "c">>, instructions |-> <<>>,
      tags |-> <<"b">>, servings |-> <<"1">>],
     [title |-> <<" ">>, ingredients |-> <<>>, instructions |-> <<>>,
      tags |-> <<>>, servings |-> <<"1">>],
     [title |-> <<"a">>, ingredients |-> <<>>, instructions |-> <<>>,
      tags |-> <<>>, servings |-> <<"x">>],
     [title |-> <<"B">>, ingredients |-> <<>>, instructions |-> <<>>, tags |-> <<>>]}

\* the sequences of n elements of S
SeqsOfLen(S, n) == [1..n -> S]

Batches(S) == UNION {SeqsOfLen(S, n) : n \in 0..MaxBatch}

Init ==
    /\ store = <<>>
    /\ seq = 0
    /\ last = NoCall
    /\ arg = <<>>
    /\ line = <<>> /\ ratio = <<1, 1>> /\ tieUp = FALSE /\ scaled = NotRun
    /\ InMainLoop

\* repo.add(r)
Add(r) ==
    /\ seq < MaxId
    /\ LET done == RepoAdd(store, seq, r)
       IN  /\ store' = done.rows
           /\ seq' = done.seq
           /\ last' = Call("add", None, "", done.ret)

\* repo.update(r)
Update(r) ==
    LET done == RepoUpdate(store, r)
    IN  /\ store' = done.rows
        /\ last' = Call("update", <<r.id, r.created_at>>, done.raised, done.ret)
        /\ UNCHANGED seq

\* repo.delete(id)
Delete(id) ==
    /\ store' = RepoDelete(store, id)
    /\ last' = Call("delete", id, "", None)
    /\ UNCHANGED seq

\* repo.get(id)
Get(id) ==
    /\ \E now \in Stamps : last' = Call("get", id, "", RepoGet(store, id, now))
    /\ UNCHANGED <<store, seq>>

\* repo.list_all()
ListAll ==
    /\ \E now \in Stamps : last' = Call("list_all", None, "", RepoListAll(store, now))
    /\ UNCHANGED <<store, seq>>

\* repo.search(q)
Search(q) ==
    /\ \E now \in Stamps : last' = Call("search", q, "", RepoSearch(store, q, now))
    /\ UNCHANGED <<store, seq>>

\* repo.import_csv(path), the file holding the rows of batch
Import(batch) ==
    /\ seq + Len(batch) <= MaxId
    /\ \E nows \in SeqsOfLen(Stamps, Len(batch)) :
          LET done == ImportCsv(store, seq, batch, nows)
          IN  /\ store' = done.rows
              /\ seq' = done.seq
              /\ last' = Call("import_csv", batch, done.raised, done.ret)

\* RecipeBoxApp._export_csv: repo.export_csv(path, repo.list_all())
Export ==
    /\ \E now \in Stamps :
          LET done == ExportCsv(RepoListAll(store, now))
          IN  last' = Call("export_csv", None, done.raised, done.ret)
    /\ UNCHANGED <<store, seq>>

Next ==
    \/ \E r \in SmallRecipes({NoId}) : Add(r) /\ UNCHANGED <<arg, scaleVars, mainVars>>
    \/ \E r \in SmallRecipes({NoId} \cup Ids) : Update(r) /\ UNCHANGED <<arg, scaleVars, mainVars>>
    \/ \E id \in Ids : Delete(id) /\ UNCHANGED <<arg, scaleVars, mainVars>>
    \/ \E id \in Ids : Get(id) /\ UNCHANGED <<arg, scaleVars, mainVars>>
    \/ ListAll /\ UNCHANGED <<arg, scaleVars, mainVars>>
    \/ \E q \in SmallQueries : Search(q) /\ UNCHANGED <<arg, scaleVars, mainVars>>
    \/ \E batch \in Batches(SmallCsvRows) : Import(batch) /\ UNCHANGED <<arg, scaleVars, mainVars>>
    \/ Export /\ UNCHANGED <<arg, scaleVars, mainVars>>

Spec == Init /\ [][Next]_vars

-----------------------------------------------------------------------------
(* The process: main() (lines 552-582) from its start to its end, with the *)
(* handlers above running inside root.mainloop().  A step of main either   *)
(* completes ("ok"), raises an Exception ("error") or is interrupted by a  *)
(* BaseException such as KeyboardInterrupt ("interrupt").                  *)

Outcomes == {"ok", "error", "interrupt"}

\* the database file found at start: empty, or one row of an earlier run
ExistingStores == {<<>>} \cup {(1 :> ToDbTuple(r)) : r \in SmallRecipes({NoId})}

\* the sample recipe of lines 564-572, created at now
Sample(now) ==
    [id |-> NoId, title |-> <<"P">>, ingredients |-> << <<"1", " ", "c">> >>,
     instructions |-> <<"M">>, tags |-> << <<"e">> >>, servings |-> 4,
     created_at |-> now]

MainInit ==
    /\ store \in ExistingStores
    /\ seq = Cardinality(DOMAIN store)
    /\ last = NoCall
    /\ arg = <<>>
    /\ line = <<>> /\ ratio = <<1, 1>> /\ tieUp = FALSE /\ scaled = NotRun
    /\ pc = "start"
    /\ conn = "none"

\* lines 554-558: root = tk.Tk() and the theme (whose errors are swallowed)
MainTk(o) ==
    /\ pc = "start"
    /\ pc' = IF o = "ok" THEN "init" ELSE "terminated"
    /\ UNCHANGED <<conn, repoVars, scaleVars>>

\* line 201, RecipeRepo.__init__: sqlite3.connect, then _ensure_schema; a
\* failure of connect leaves no connection, a later one an open connection
AppConnect(o, connected) ==
    /\ pc = "init"
    /\ o = "ok" => connected
    /\ conn' = IF connected THEN "open" ELSE "none"
    /\ pc' = IF o = "ok" THEN "build_ui" ELSE "terminated"
    /\ UNCHANGED <<repoVars, scaleVars>>

\* line 202: self._build_ui()
AppBuildUi(o) ==
    /\ pc = "build_ui"
    /\ pc' = IF o = "ok" THEN "load_list" ELSE "terminated"
    /\ UNCHANGED <<conn, repoVars, scaleVars>>

\* line 203: self._load_list(), which calls repo.list_all()
AppLoadList(o) ==
    /\ pc = "load_list"
    /\ pc' = IF o = "ok" THEN "seed_check" ELSE "terminated"
    /\ \E now \in Stamps :
          last' = IF o = "ok" THEN Call("list_all", None, "", RepoListAll(store, now))
                  ELSE last
    /\ UNCHANGED <<conn, store, seq, arg, scaleVars>>

\* line 562: if not app.repo.list_all(), outside any try
MainSeedCheck(o) ==
    /\ pc = "seed_check"
    /\ pc' = IF o # "ok" THEN "terminated"
             ELSE IF DOMAIN store = {} THEN "seed" ELSE "mainloop"
    /\ \E now \in Stamps :
          last' = IF o = "ok" THEN Call("list_all", None, "", RepoListAll(store, now))
                  ELSE last
    /\ UNCHANGED <<conn, store, seq, arg, scaleVars>>

\* lines 563-576: the seeding inside try / except Exception; added tells
\* whether repo.add had committed when the step ended
MainSeed(o, added) ==
    /\ pc = "seed"
    /\ o = "ok" => added
    /\ \E now \in Stamps :
          LET done == RepoAdd(store, seq, Sample(now))
          IN  IF added
              THEN /\ store' = done.rows
                   /\ seq' = done.seq
                   /\ last' = Call("add", None, "", done.ret)
              ELSE UNCHANGED <<store, seq, last>>
    /\ pc' = IF o = "interrupt" THEN "terminated" ELSE "mainloop"
    /\ UNCHANGED <<conn, arg, scaleVars>>

\* a handler run by root.mainloop() (line 579)
MainHandler == InMainLoop /\ Next

\* lines 578-580: mainloop returns, raises or is interrupted; the finally
\* clause runs in every case
MainLoopEnds(o) ==
    /\ pc = "mainloop"
    /\ pc' = "closing"
    /\ UNCHANGED <<conn, repoVars, scaleVars>>

\* line 581, in the finally clause: app.repo.close()
MainClose ==
    /\ pc = "closing"
    /\ conn' = "closed"
    /\ pc' = "terminated"
    /\ UNCHANGED <<repoVars, scaleVars>>

MainNext ==
    \/ \E o \in Outcomes : MainTk(o)
    \/ \E o \in Outcomes, connected \in BOOLEAN : AppConnect(o, connected)
    \/ \E o \in Outcomes : AppBuildUi(o)
    \/ \E o \in Outcomes : AppLoadList(o)
    \/ \E o \in Outcomes : MainSeedCheck(o)
    \/ \E o \in Outcomes, added \in BOOLEAN : MainSeed(o, added)
    \/ MainHandler
    \/ \E o \in Outcomes : MainLoopEnds(o)
    \/ MainClose

SpecMain == MainInit /\ [][MainNext]_vars

-----------------------------------------------------------------------------
(* Encoding scenario: one record, drawn from texts over an alphabet with   *)
(* the characters the encodings give a meaning to, is added and read back; *)
(* or a row that an older version wrote with newline-separated             *)
(* ingredients is found in the table and read.                             *)

MaxItemLen == 2   \* characters of an ingredient line or a tag
MaxItems == 2     \* ingredient lines, and tags, of a record

CodecChars == {"a", "2", ",", "\"", "\\", " ", "\n", "["}
ListChars == {"a", "\"", "\n"}
TagChars == {"b", ",", " "}

ListsUpTo(S, n) == UNION {SeqsOfLen(S, k) : k \in 0..n}

CodecRecipe(ings, tags) ==
    [id |-> NoId, title |-> <<"a">>, ingredients |-> ings, instructions |-> <<>>,
     tags |-> tags, servings |-> 1, created_at |-> 1]

\* records with one ingredient line of any text over CodecChars, records
\* with a list of ingredient lines over ListChars, and records with a list
\* of tags over TagChars
CodecRecipes ==
    UNION {{CodecRecipe(<<x>>, <<>>) : x \in SeqsUpTo(CodecChars, MaxItemLen)},
           {CodecRecipe(ings, <<>>) :
               ings \in ListsUpTo(SeqsUpTo(ListChars, MaxItemLen), MaxItems)},
           {CodecRecipe(<<>>, tags) :
               tags \in ListsUpTo(SeqsUpTo(TagChars, MaxItemLen), MaxItems)}}

\* the row an older version stored for r: ingredients one per line
LegacyRow(r) == [ToDbTuple(r) EXCEPT !.ingredients = Join(r.ingredients, "\n")]

CodecInit ==
    /\ store = <<>>
    /\ seq = 0
    /\ last = NoCall
    /\ arg \in CodecRecipes
    /\ line = <<>> /\ ratio = <<1, 1>> /\ tieUp = FALSE /\ scaled = NotRun
    /\ InMainLoop

\* repo.add(arg)
CodecAdd ==
    /\ last.op = "none"
    /\ Add(arg)
    /\ UNCHANGED <<arg, scaleVars, mainVars>>

\* the table holds a row of the legacy encoding
CodecLegacy ==
    /\ last.op = "none"
    /\ store' = (1 :> LegacyRow(arg))
    /\ seq' = 1
    /\ last' = Call("legacy", None, "", 1)
    /\ UNCHANGED <<arg, scaleVars, mainVars>>

\* repo.get(id) of the row
CodecGet ==
    /\ last.op \in {"add", "legacy"}
    /\ Get(last.ret)
    /\ UNCHANGED <<arg, scaleVars, mainVars>>

CodecNext == CodecAdd \/ CodecLegacy \/ CodecGet

SpecCodec == CodecInit /\ [][CodecNext]_vars

-----------------------------------------------------------------------------
(* Transfer scenario: one CSV file is imported into an empty table, and    *)
(* the table is exported.                                                  *)

MaxCellLen == 3   \* characters of an ingredients or tags cell

CsvRow(title, ings, instr, tags, servings) ==
    [title |-> title, ingredients |-> ings, instructions |-> instr,
     tags |-> tags, servings |-> servings]

CsvServingsCells ==
    {<<>>, <<"0">>, <<"1">>, <<"2">>, <<"-", "1">>, <<" ", "2">>, <<"x">>, <<"1", ".", "5">>}

\* rows with every kind of ingredients cell and servings cell, and rows
\* with every kind of title, instructions and tags cell
RichCsvRows ==
    {CsvRow(title, ings, <<>>, <<"b">>, servings) :
        title \in {<<"a">>, <<>>},
        ings \in SeqsUpTo({"a", ",", "|", " "}, MaxCellLen),
        servings \in CsvServingsCells}
    \cup {CsvRow(title, <<"a">>, instr, tags, <<"2">>) :
        title \in {<<"a">>, <<" ", "a">>, <<" ">>},
        instr \in {<<>>, <<"c">>, <<"c", " ">>},
        tags \in SeqsUpTo({"b", ",", " "}, MaxCellLen)}

\* rows that differ in the title and the servings cell (the last ones come
\* from a file with no servings column)
PlainCsvRows ==
    {CsvRow(title, <<"a">>, <<>>, <<>>, servings) :
        title \in {<<"a">>, <<" ">>}, servings \in {<<>>, <<"2">>, <<"x">>}}
    \cup {[title |-> title, ingredients |-> <<"a">>, instructions |-> <<>>, tags |-> <<>>] :
        title \in {<<"a">>, <<" ">>}}

CsvFiles == SeqsOfLen(RichCsvRows, 1) \cup Batches(PlainCsvRows)

CsvInit ==
    /\ store = <<>>
    /\ seq = 0
    /\ last = NoCall
    /\ arg \in CsvFiles
    /\ line = <<>> /\ ratio = <<1, 1>> /\ tieUp = FALSE /\ scaled = NotRun
    /\ InMainLoop

\* repo.import_csv(path) of the file
CsvImport ==
    /\ last.op = "none"
    /\ Import(arg)
    /\ UNCHANGED <<arg, scaleVars, mainVars>>

\* RecipeBoxApp._export_csv after the import
CsvExport ==
    /\ last.op = "import_csv"
    /\ Export
    /\ UNCHANGED <<arg, scaleVars, mainVars>>

CsvNext == CsvImport \/ CsvExport

SpecCsv == CsvInit /\ [][CsvNext]_vars

-----------------------------------------------------------------------------
(* Editing scenario: the recipe editor (RecipeEditor, lines 351-432) and   *)
(* the CSV import, the two ways the interface writes servings.  arg is the *)
(* editor: whether its (modal) window is open, and the recipe it was       *)
(* opened on, of id NoId for a new recipe.                                 *)

NoRecipe ==
    [id |-> NoId, title |-> <<>>, ingredients |-> JList(<<>>), instructions |-> <<>>,
     tags |-> <<>>, servings |-> 1, created_at |-> 0]

NoEditor == [open |-> FALSE, recipe |-> NoRecipe]

\* what the user has typed into the form when Save is pressed
EditForms ==
    {[title |-> title, servings |-> servings, tags |-> tags,
      ingredients |-> ings, instructions |-> <<>>] :
        title \in {<<"a">>, <<" ">>},
        servings \in {<<"1">>, <<"2">>, <<"0">>, <<"-", "1">>, <<"x">>, <<>>},
        tags \in {<<>>, <<"b", ",", " ">>},
        ings \in {<<"\n">>, <<"2", " ", "c", "\n">>}}

\* the files imported: rows with a servings cell of every kind
EditCsvRows ==
    {CsvRow(<<"a">>, <<"a">>, <<>>, <<>>, servings) :
        servings \in {<<"1">>, <<"0">>, <<"-", "1">>, <<>>}}

\* RecipeEditor._validate: the error message, or None when the form is valid
Validate(form) ==
    IF Strip(form.title) = <<>> THEN "Title cannot be empty."
    ELSE IF ~PyInt(form.servings).ok THEN "Servings must be an integer."
    ELSE IF PyInt(form.servings).n < 1 THEN "Servings must be >= 1"
    ELSE None

\* lines 410-414 and 417 / 425: the Recipe built from a valid form
RecipeOfForm(form, id, created_at) ==
    [id |-> id,
     title |-> Strip(form.title),
     ingredients |-> StripNonEmpty(SplitLines(form.ingredients)),
     instructions |-> Strip(form.instructions),
     tags |-> StripNonEmpty(SplitOn(form.tags, ",")),
     servings |-> PyInt(form.servings).n,
     created_at |-> created_at]

EditInit ==
    /\ store = <<>>
    /\ seq = 0
    /\ last = NoCall
    /\ arg = NoEditor
    /\ line = <<>> /\ ratio = <<1, 1>> /\ tieUp = FALSE /\ scaled = NotRun
    /\ InMainLoop

\* RecipeBoxApp._open_new
OpenNew ==
    /\ ~arg.open
    /\ arg' = [open |-> TRUE, recipe |-> NoRecipe]
    /\ UNCHANGED <<store, seq, last, scaleVars, mainVars>>

\* RecipeBoxApp._on_edit on the selected row: the editor opens on
\* repo.get(rid), or an error is shown when there is no such row
OnEdit(id) ==
    /\ ~arg.open
    /\ \E now \in Stamps :
          LET rec == RepoGet(store, id, now)
          IN  /\ last' = Call("get", id, "", rec)
              /\ arg' = IF id \in DOMAIN store
                        THEN [open |-> TRUE, recipe |-> rec]
                        ELSE arg
    /\ UNCHANGED <<store, seq, scaleVars, mainVars>>

\* RecipeEditor._on_save: an invalid form shows the error and leaves the
\* editor open; a valid one is written with update (existing recipe) or
\* add (new recipe) and the editor closes
OnSave(form) ==
    /\ arg.open
    /\ arg.recipe.id = NoId => seq < MaxId
    /\ IF Validate(form) # None
       THEN /\ last' = Call("save", None, Validate(form), None)
            /\ UNCHANGED <<store, seq, arg>>
       ELSE IF arg.recipe.id # NoId
       THEN LET done == RepoUpdate(store,
                            RecipeOfForm(form, arg.recipe.id, arg.recipe.created_at))
            IN  /\ store' = done.rows
                /\ last' = Call("save", None, done.raised, done.ret)
                /\ arg' = NoEditor
                /\ UNCHANGED seq
       ELSE \E now \in Stamps :
              LET done == RepoAdd(store, seq, RecipeOfForm(form, NoId, now))
              IN  /\ store' = done.rows
                  /\ seq' = done.seq
                  /\ last' = Call("save", None, "", done.ret)
                  /\ arg' = NoEditor
    /\ UNCHANGED <<scaleVars, mainVars>>

\* RecipeEditor._on_cancel
OnCancel ==
    /\ arg.open
    /\ arg' = NoEditor
    /\ UNCHANGED <<store, seq, last, scaleVars, mainVars>>

\* RecipeBoxApp._import_csv: repo.import_csv, its exception caught
OnImport(batch) ==
    /\ ~arg.open
    /\ Import(batch)
    /\ UNCHANGED <<arg, scaleVars, mainVars>>

\* RecipeBoxApp._on_delete, confirmed by the user
OnDelete(id) ==
    /\ ~arg.open
    /\ Delete(id)
    /\ UNCHANGED <<arg, scaleVars, mainVars>>

EditNext ==
    \/ OpenNew
    \/ \E id \in Ids : OnEdit(id)
    \/ \E form \in EditForms : OnSave(form)
    \/ OnCancel
    \/ \E batch \in Batches(EditCsvRows) : OnImport(batch)
    \/ \E id \in Ids : OnDelete(id)

SpecEdit == EditInit /\ [][EditNext]_vars

-----------------------------------------------------------------------------
(* Claims about the scaler, checked under SpecScale.                       *)

\* the stripped line starts with digits immediately followed by a letter
DigitsThenLetter(s) ==
    LET e == RunEnd(IsDigit, s, 1)
    IN  e >= 1 /\ e < Len(s) /\ s[e + 1] \in Letters

\* the stripped line is a recognised quantity and nothing else
QuantityOnly(s) ==
    LET e == QuantityMatchEnd(s)
    IN  e >= 1 /\ e = Len(s) /\ FracToFloat(Slice(s, 1, e)).ok

\* the rendering of (the quantity read from q) * ratio
ScaledQty(q) ==
    LET qty == FracToFloat(q)
    IN  FormatQty(qty.n * ratio[1], qty.d * ratio[2],
                  Dyadic(qty.n, qty.d) /\ Dyadic(ratio[1], ratio[2]), tieUp)

\* C4 as claimed: for a line that starts with digits immediately followed by a
\* letter ('2cups', '2nd'), the scaler takes the leading digits as the
\* quantity and the rest as the remainder, and returns the rescaled line.
C4_DigitsThenLetterScaled ==
    (scaled # NotRun /\ DigitsThenLetter(Strip(line))) =>
        LET s == Strip(line)
            e == RunEnd(IsDigit, s, 1)
        IN  scaled = ScaledQty(Slice(s, 1, e)) \o <<" ">> \o Strip(Slice(s, e + 1, Len(s)))

\* C4 amended: for a line that starts with digits immediately followed by a
\* letter, the scaler recognises no quantity (the word-boundary rule fails
\* between a digit and a letter) and returns the trimmed line unscaled.
C4_DigitsThenLetterUnscaled ==
    (scaled # NotRun /\ DigitsThenLetter(Strip(line))) => scaled = Strip(line)

C4_Witness ==
    /\ scaled # NotRun
    /\ line = <<"2", "c">>
    /\ ratio = <<2, 1>>
    /\ scaled = <<"2", "c">>

\* C5: when the line is a recognised quantity and nothing else (the remainder
\* is empty), the scaler returns exactly the rendered quantity, with no
\* trailing whitespace.
C5_QuantityOnlyNoTrailingSpace ==
    (scaled # NotRun /\ QuantityOnly(Strip(line))) =>
        /\ scaled = ScaledQty(Strip(line))
        /\ scaled = RStrip(scaled)

\* the mixed number '<int> <int>/<int>' at the start of s, when it is
\* followed by whitespace or the end of s: [ok, whole, num, den, e], e the
\* index of its last character
MixedNumber(s) ==
    LET i1 == RunEnd(IsDigit, s, 1)
        i2 == RunEnd(IsSpace, s, i1 + 1)
        i3 == RunEnd(IsDigit, s, i2 + 1)
        i4 == RunEnd(IsDigit, s, i3 + 2)
    IN  IF /\ i1 >= 1 /\ i2 >= i1 + 1 /\ i3 >= i2 + 1
           /\ HasCharAt(s, i3 + 1, "/") /\ i4 >= i3 + 2
           /\ (i4 = Len(s) \/ IsSpace(s[i4 + 1]))
        THEN [ok |-> TRUE,
              whole |-> DigitsToNat(Slice(s, 1, i1)),
              num |-> DigitsToNat(Slice(s, i2 + 1, i3)),
              den |-> DigitsToNat(Slice(s, i3 + 2, i4)),
              e |-> i4]
        ELSE [ok |-> FALSE, whole |-> 0, num |-> 0, den |-> 1, e |-> 0]

\* a line: a text with no line break in it
IsLine(s) == \A i \in 1..Len(s) : ~IsLineBreak(s[i])

\* the rendering of (n/d) * ratio
ScaledRational(n, d) ==
    FormatQty(n * ratio[1], d * ratio[2],
              Dyadic(n, d) /\ Dyadic(ratio[1], ratio[2]), tieUp)

\* C12: for every line that starts with a mixed number '<int> <int>/<int>'
\* with a non-zero denominator, followed by whitespace or the end of the
\* line, the scaler takes int + numerator/denominator as the quantity and
\* the text after the fraction as the remainder; it never takes the integer
\* alone as the quantity with '<int>/<int> ...' as the remainder.
C12_MixedNumberTakenWhole ==
    LET s == Strip(line)
        m == MixedNumber(s)
    IN  (scaled # NotRun /\ IsLine(s) /\ m.ok /\ m.den # 0) =>
            /\ scaled = ScaledRational(m.whole * m.den + m.num, m.den)
                           \o <<" ">> \o Strip(Slice(s, m.e + 1, Len(s)))
            /\ scaled # ScaledRational(m.whole, 1) \o <<" ">>
                           \o Strip(Slice(s, RunEnd(IsDigit, s, 1) + 1, Len(s)))

C12_Witness ==
    /\ scaled # NotRun
    /\ line = <<"1", " ", "1", "/", "2", " ", "c">>
    /\ ratio = <<2, 1>>
    /\ scaled = <<"3", " ", "c">>

-----------------------------------------------------------------------------
(* Claims about the repository, checked under Spec.                        *)

C3_UpdateMissingIdReported ==
    (last.op = "update" /\ last.arg[1] # NoId /\ last.arg[1] \notin DOMAIN store) =>
        (last.raised # "" \/ last.ret # None)

\* C9: the created_at stored for an id stays the stored value in every later
\* state until the id is deleted, whatever call is made, an update whose
\* record carries another created_at included.
C9_CreatedAtNeverChanges ==
    [][\A i \in DOMAIN store \cap DOMAIN store' :
          store'[i].created_at = store[i].created_at]_vars

C9_Witness ==
    /\ last.op = "update"
    /\ last.raised = ""
    /\ last.arg[1] \in DOMAIN store
    /\ store[last.arg[1]].created_at # last.arg[2]

\* C10: delete(id) with an id that is not in the store does not raise and
\* leaves the store unchanged (the same rows with the same fields), so a
\* second delete of the same id changes nothing.
C10_DeleteMissingIdLeavesStore ==
    [][(last'.op = "delete" /\ last'.arg \notin DOMAIN store) =>
          (store' = store /\ seq' = seq /\ last'.raised = "")]_vars

C10_Witness ==
    /\ last.op = "delete"
    /\ last.raised = ""
    /\ last.arg > seq
    /\ Cardinality(DOMAIN store) = 2

-----------------------------------------------------------------------------
(* Claims about the process, checked under SpecMain.                       *)

\* C11: once RecipeRepo has opened its connection, every way the process
\* ends passes through RecipeRepo.close() first: no terminated state is
\* reachable with the connection still open.
C11_TerminatedImpliesClosed ==
    pc = "terminated" => conn # "open"

-----------------------------------------------------------------------------
(* Claims about the encodings, checked under SpecCodec.                    *)

\* the row read was written by add(arg)
ReadAfterAdd == last.op = "get" /\ last.arg \in DOMAIN store /\ store[last.arg] = ToDbTuple(arg)

\* the row read is the legacy row of arg
ReadLegacy == last.op = "get" /\ last.arg \in DOMAIN store /\ store[last.arg] = LegacyRow(arg)

\* every text of L is non-empty, trimmed and free of the characters in bad
CleanItems(L, bad) ==
    \A k \in 1..Len(L) :
        /\ L[k] # <<>>
        /\ Strip(L[k]) = L[k]
        /\ \A c \in bad : ~Contains(L[k], c)

\* C6 as claimed: for every record passed to add, whatever text its
\* ingredient lines and tags contain, a later get(id) returns ingredients and
\* tags equal, as ordered sequences, to the ones supplied.
C6_AddGetRoundTrip ==
    ReadAfterAdd =>
        /\ last.ret.ingredients = JList(arg.ingredients)
        /\ last.ret.tags = arg.tags

\* C6 amended: for every record passed to add, a later get(id) returns
\* ingredients equal to the ones supplied, whatever their text; it returns
\* tags equal to the ones supplied when every tag is non-empty, has no
\* surrounding whitespace and holds no comma.
C6_AddGetRoundTripCleanTags ==
    ReadAfterAdd =>
        /\ last.ret.ingredients = JList(arg.ingredients)
        /\ CleanItems(arg.tags, {","}) => last.ret.tags = arg.tags

C6_Witness ==
    /\ ReadAfterAdd
    /\ arg.ingredients = << <<"a", "\"">>, <<"\"", "\n">> >>
    /\ last.ret.ingredients = JList(arg.ingredients)

\* C7: for every ordered sequence L of non-blank, trimmed ingredient lines,
\* reading a row whose ingredients column holds the lines of L joined by
\* newlines gives the same ingredients as reading a row whose column holds
\* the JSON array of L, also when a line is valid JSON by itself ('2').
C7_LegacyDecodesAsStructured ==
    (ReadLegacy /\ CleanItems(arg.ingredients, {"\n", "\r", "\f"})) =>
        /\ last.ret.ingredients = DecodeIngredients(JsonDumps(arg.ingredients))
        /\ last.ret.ingredients = JList(arg.ingredients)

-----------------------------------------------------------------------------
(* Claims about the CSV transfer, checked under SpecCsv.                   *)

Accepted(row) == Strip(Cell(row, "title", <<>>)) # <<>>

RECURSIVE CountAccepted(_)
CountAccepted(batch) ==
    IF batch = <<>> THEN 0
    ELSE (IF Accepted(Head(batch)) THEN 1 ELSE 0) + CountAccepted(Tail(batch))

\* a servings cell that is non-empty and no integer
Unparsable(row) ==
    /\ "servings" \in DOMAIN row
    /\ row.servings # <<>>
    /\ ~PyInt(row.servings).ok

\* C2: an import over a batch in which some row has a non-empty title and a
\* servings cell that is non-empty and unparsable does not abort: the call
\* returns the count of the rows with a non-empty title, all of them are
\* created, and the row with the unparsable cell has servings = 1.
C2_UnparsableServingsDoesNotAbort ==
    (/\ last.op = "import_csv"
     /\ \E k \in 1..Len(arg) : Accepted(arg[k]) /\ Unparsable(arg[k])) =>
        /\ last.raised = ""
        /\ last.ret = CountAccepted(arg)
        /\ Cardinality(DOMAIN store) = CountAccepted(arg)
        /\ \A k \in 1..Len(arg) :
              (Accepted(arg[k]) /\ Unparsable(arg[k])) =>
                  LET id == CountAccepted(SubSeq(arg, 1, k))
                  IN  id \in DOMAIN store /\ store[id].servings = 1

\* the cell is the join of trimmed non-empty items free of sep
CleanCell(cell, sep) == cell = Join(StripNonEmpty(SplitOn(cell, sep)), sep)

\* a row of the kind C8 is about
RoundTripRow(row) ==
    /\ Accepted(row)
    /\ Strip(row.title) = row.title
    /\ Strip(row.instructions) = row.instructions
    /\ "servings" \in DOMAIN row
    /\ PyInt(row.servings).ok
    /\ IntToStr(PyInt(row.servings).n) = row.servings
    /\ CleanCell(row.tags, ",")
    /\ CleanCell(row.ingredients, "|")

\* C8: import followed by export round-trips every field of a row with a
\* non-empty trimmed title, trimmed instructions, an integer servings,
\* comma-free trimmed tags and trimmed non-empty pipe-free ingredient items
\* (commas allowed): the exported cells equal the imported ones, and the
\* number and order of the ingredient items are unchanged.
C8_ImportExportRoundTrip ==
    (/\ last.op = "export_csv"
     /\ \A k \in 1..Len(arg) : RoundTripRow(arg[k])) =>
        /\ last.raised = ""
        /\ Len(last.ret) = Len(arg)
        /\ \A k \in 1..Len(arg) : \E j \in 1..Len(last.ret) :
              /\ last.ret[j].id = IntToStr(k)
              /\ last.ret[j].title = arg[k].title
              /\ last.ret[j].ingredients = arg[k].ingredients
              /\ SplitOn(last.ret[j].ingredients, "|") = SplitOn(arg[k].ingredients, "|")
              /\ last.ret[j].instructions = arg[k].instructions
              /\ last.ret[j].tags = arg[k].tags
              /\ last.ret[j].servings = arg[k].servings

-----------------------------------------------------------------------------
(* Claims about servings, checked under SpecEdit.                          *)

\* C13: after any sequence of editor saves and imports, every record held
\* in the store has servings >= 1, and the servings that get(id) returns
\* is the value stored for that id.
C13_ServingsAtLeastOne ==
    \A i \in DOMAIN store :
        /\ store[i].servings >= 1
        /\ \A now \in Stamps : RepoGet(store, i, now).servings = store[i].servings

=============================================================================
